---- MODULE Spec2Model ----
(***************************************************************************)
(* quicktype-vscode: the paste commands of src/src/extension.ts.           *)
(*                                                                         *)
(* Every invocation of pasteAsTypes is a process that is suspended at its  *)
(* awaits: the language picker, the clipboard read, the top-level-name     *)
(* prompt and the engine call.  The editor (document, selection, options,  *)
(* language id) and the clipboard are shared by all invocations; every     *)
(* other value is a local of one invocation.                               *)
(***************************************************************************)
EXTENDS Integers, Sequences

\* ---------------------------------------------------------------- bounds

\* Number of command invocations started in one behaviour.
MaxRuns == 2

\* Largest document offset the user moves the selection to.
MaxPos == 1

\* Commands are run while the document is at most this long.
MaxDoc == 10

\* Two invocations can be in flight at the same time, one slot each; a new
\* invocation takes the lowest slot that is free.
Procs == {1, 2}

\* ------------------------------------------------------------ environment

\* The value a dismissed prompt resolves to.
Undefined == "undefined"

\* The languages of the engine: the names a language answers to and its
\* display name.
languages ==
    { [names |-> {"typescript", "ts", "tsx"}, displayName |-> "TypeScript"],
      [names |-> {"swift", "swift4"}, displayName |-> "Swift"] }

DisplayNames == { l.displayName : l \in languages }

\* languageNamed(name): the languages answering to name; the empty set is
\* the undefined the function returns for an unknown name.
languageNamed(name) == { l \in languages : name \in l.names }

\* The editors the commands are run in: a TypeScript document indented with
\* two spaces, and a plain text document indented with tabs.
Editors ==
    { [languageId |-> "typescript",
       options |-> [insertSpaces |-> TRUE, tabSize |-> 2]],
      [languageId |-> "plaintext",
       options |-> [insertSpaces |-> FALSE, tabSize |-> 4]] }

\* Clipboard contents, as sequences of characters.
Contents ==
    { <<"[", "1", "]">>, <<"[", "1">> }

\* What the user types into the name prompt (Undefined: dismissed).
NameInputs == {Undefined, "", "A"}

\* The registered commands: the kind and the justTypes flag each passes.
Command ==
    { [id |-> "quicktype.pasteJSONAsTypes",
       kind |-> "json", justTypes |-> TRUE],
      [id |-> "quicktype.pasteJSONAsTypesAndSerialization",
       kind |-> "json", justTypes |-> FALSE],
      [id |-> "quicktype.pasteJSONSchemaAsTypes",
       kind |-> "schema", justTypes |-> TRUE],
      [id |-> "quicktype.pasteJSONSchemaAsTypesAndSerialization",
       kind |-> "schema", justTypes |-> FALSE],
      [id |-> "quicktype.pasteTypeScriptAsTypesAndSerialization",
       kind |-> "typescript", justTypes |-> FALSE] }

\* ----------------------------------------------------------- pure functions

\* JSON.parse, on the grammar  value ::= 1 | {} | [] | [ value (, value)* ] :
\* the offset after the value that starts at offset i, or 0 on a syntax error.
RECURSIVE ParseValue(_, _), ParseElements(_, _)
ParseValue(s, i) ==
    IF i > Len(s) THEN 0
    ELSE IF s[i] = "1" THEN i + 1
    ELSE IF s[i] = "{"
         THEN IF i + 1 <= Len(s) /\ s[i + 1] = "}" THEN i + 2 ELSE 0
    ELSE IF s[i] = "["
         THEN IF i + 1 <= Len(s) /\ s[i + 1] = "]" THEN i + 2
              ELSE ParseElements(s, i + 1)
    ELSE 0

ParseElements(s, i) ==
    LET j == ParseValue(s, i)
    IN  IF j = 0 \/ j > Len(s) THEN 0
        ELSE IF s[j] = "]" THEN j + 1
        ELSE IF s[j] = "," THEN ParseElements(s, j + 1)
        ELSE 0

\* jsonIsValid without the call of JSON.parse.
jsonIsValidAlways(json) == TRUE

\* jsonIsValid: JSON.parse does not throw.
jsonIsValid(json) == ParseValue(json, 1) = Len(json) + 1

\* a || b of JavaScript, on strings and Undefined.
OrElse(a, b) == IF a = Undefined \/ a = "" THEN b ELSE a

\* " ".repeat(n)
Repeat(c, n) == [i \in 1..n |-> c]

\* Array.prototype.join: the lines in order, sep between consecutive lines.
RECURSIVE Join(_, _)
Join(lines, sep) ==
    IF Len(lines) = 0 THEN <<>>
    ELSE IF Len(lines) = 1 THEN lines[1]
    ELSE lines[1] \o <<sep>> \o Join(Tail(lines), sep)

\* ------------------------------------------------------------------ state

VARIABLES
    \* the editor and the clipboard, shared by all invocations
    languageId,       \* editor.document.languageId
    options,          \* editor.options
    document,         \* the text of editor.document, a sequence of characters
    selection,        \* editor.selection, offsets into document
    clipboard,        \* the system clipboard
    \* one invocation of pasteAsTypes per slot
    pc,               \* where the invocation is suspended
    outcome,          \* how the invocation ended
    command,          \* the registered command that was run
    kind,             \* parameter kind
    justTypes,        \* parameter justTypes
    indentation,      \* local indentation
    documentLanguage, \* local documentLanguage of getTargetLanguage
    chosenName,       \* local chosenName of getTargetLanguage
    language,         \* local language
    content,          \* local content
    rendererOptions,  \* local rendererOptions
    promptedName,     \* local topLevelName of promptTopLevelName
    topLevelName,     \* local topLevelName
    result,           \* local result
    \* what the invocation in the slot did, in order
    pickerShown,      \* showQuickPick calls
    pasteCalls,       \* paste() calls
    pasted,           \* contents the paste() calls resolved to
    promptShown,      \* showInputBox calls
    errors,           \* showErrorMessage calls
    events,           \* analytics.sendEvent calls
    calls,            \* quicktype calls
    edits,            \* edits applied to the document
    \* history
    runs,             \* invocations started
    engineFailures,   \* whether an engine call has thrown
    failuresBefore    \* engineFailures when the invocation started

editorVars == <<languageId, options, document, selection>>
localVars == <<command, kind, justTypes, indentation, documentLanguage,
               chosenName, language, content, rendererOptions, promptedName,
               topLevelName, result>>
logVars == <<pickerShown, pasteCalls, pasted, promptShown, errors, events,
             calls, edits>>
vars == <<editorVars, clipboard, pc, outcome, localVars, logVars, runs,
          engineFailures, failuresBefore>>

\* --------------------------------------------------- the code's expressions

\* pasteAsTypes, the indentation of the editor's options.
Indentation(opts) ==
    IF opts.insertSpaces THEN Repeat(" ", opts.tabSize) ELSE <<"\t">>

\* NeedsPicker of a getTargetLanguage that asks in every document.
NeedsPickerAlways(docLanguage) == TRUE

\* getTargetLanguage: whether the document's language is no language of the
\* engine, so that the user is asked.
NeedsPicker(docLanguage) == languageNamed(docLanguage) = {}

\* getTargetLanguage, the result for a document in a language of the engine.
CurrentLanguage(docLanguage) ==
    [cancelled |-> FALSE,
     name |-> (CHOOSE l \in languageNamed(docLanguage) : TRUE).displayName]

\* getTargetLanguage, the items of the picker.
languageChoices == DisplayNames

\* ChosenLanguage with the default standing in for a missing choice.
ChosenLanguageFallback(chosen) ==
    [cancelled |-> FALSE, name |-> OrElse(chosen, "types")]

\* getTargetLanguage, the result for what the picker resolved to.
ChosenLanguage(chosen) ==
    [cancelled |-> chosen = Undefined, name |-> OrElse(chosen, "types")]

\* TopLevelName with a dismissed prompt taken for an empty name.
TopLevelNameDefaulted(input) ==
    [cancelled |-> FALSE, name |-> OrElse(input, "TopLevel")]

\* promptTopLevelName, the result for what the input box resolved to.
TopLevelName(input) ==
    [cancelled |-> input = Undefined, name |-> OrElse(input, "TopLevel")]

\* RendererOptions with the just-types setting whatever the flag.
RendererOptionsJustTypes(jt) ==
    {<<"just-types", "true">>, <<"features", "just-types">>}

\* pasteAsTypes, the renderer options: a set of <<key, value>>.
RendererOptions(jt) ==
    IF jt THEN {<<"just-types", "true">>, <<"features", "just-types">>}
    ELSE {}

\* pasteAsTypes, the object literal the source is looked up in by kind.  The
\* file name `${name}.ts` is the pair <<name, ".ts">>.
Sources(name, text) ==
    [json |-> [kind |-> "json", name |-> name, samples |-> <<text>>],
     schema |-> [kind |-> "schema", name |-> name, schema |-> text],
     typescript |-> [kind |-> "typescript",
                     sources |-> {<<<<name, ".ts">>, text>>}]]

\* pasteAsTypes, the argument of quicktype.
Request(lang, source, opts, indent) ==
    [lang |-> lang,
     sources |-> <<source>>,
     leadingComments |-> <<"Generated by https://quicktype.io">>,
     rendererOptions |-> opts,
     indentation |-> indent]

\* ----------------------------------------------------------------- engine

\* The text a source carries.
SourceText(source) ==
    IF source.kind = "json" THEN source.samples[1]
    ELSE IF source.kind = "schema" THEN source.schema
    ELSE (CHOOSE f \in source.sources : TRUE)[2]

\* The name a source carries.
SourceName(source) ==
    IF source.kind = "typescript"
    THEN (CHOOSE f \in source.sources : TRUE)[1][1]
    ELSE source.name

\* The engine parses the text of a json or schema source as JSON; the
\* exception it raises on a syntax error cannot be caught by the caller.
Uncatchable(request) ==
    LET source == request.sources[1]
        text == SourceText(source)
    IN  source.kind # "typescript" /\ ParseValue(text, 1) # Len(text) + 1

\* The lines the engine renders: one comment line per leading comment, then
\* a declaration for the source.  A function of the request alone.
Render(request) ==
    LET source == request.sources[1]
    IN  [i \in 1..Len(request.leadingComments) |->
            <<"//", request.leadingComments[i]>>]
        \o << <<request.lang, SourceName(source)>>, SourceText(source) >>

\* The error the engine throws for a request it rejects.
EngineError(request) == <<"Error", request.sources[1].kind>>

\* ----------------------------------------------------------------- editor

\* builder.insert(position, text)
Insert(doc, position, text) ==
    SubSeq(doc, 1, position) \o text \o SubSeq(doc, position + 1, Len(doc))

\* builder.replace(new Range(start, end), text)
Replace(doc, start, end, text) ==
    SubSeq(doc, 1, start) \o text \o SubSeq(doc, end + 1, Len(doc))

\* selection.isEmpty
IsEmpty(sel) == sel.start = sel.end

\* Edit with the text inserted at the start of a selection that is not empty.
EditInsertOnly(doc, sel, text) == Insert(doc, sel.start, text)

\* The callback of editor.edit.
Edit(doc, sel, text) ==
    IF IsEmpty(sel) THEN Insert(doc, sel.start, text)
    ELSE Replace(doc, sel.start, sel.end, text)

\* ------------------------------------------------------------------- Init

NoResult == [cancelled |-> FALSE, name |-> Undefined]

Init ==
    /\ \E editor \in Editors :
        /\ languageId = editor.languageId
        /\ options = editor.options
    /\ document = <<"a", "b">>
    /\ selection = [start |-> 0, end |-> 0]
    /\ clipboard \in Contents
    /\ pc = [p \in Procs |-> "idle"]
    /\ outcome = [p \in Procs |-> "none"]
    /\ command = [p \in Procs |-> "none"]
    /\ kind = [p \in Procs |-> "none"]
    /\ justTypes = [p \in Procs |-> FALSE]
    /\ indentation = [p \in Procs |-> <<>>]
    /\ documentLanguage = [p \in Procs |-> ""]
    /\ chosenName = [p \in Procs |-> Undefined]
    /\ language = [p \in Procs |-> NoResult]
    /\ content = [p \in Procs |-> <<>>]
    /\ rendererOptions = [p \in Procs |-> {}]
    /\ promptedName = [p \in Procs |-> Undefined]
    /\ topLevelName = [p \in Procs |-> NoResult]
    /\ result = [p \in Procs |-> <<>>]
    /\ pickerShown = [p \in Procs |-> 0]
    /\ pasteCalls = [p \in Procs |-> 0]
    /\ pasted = [p \in Procs |-> <<>>]
    /\ promptShown = [p \in Procs |-> 0]
    /\ errors = [p \in Procs |-> <<>>]
    /\ events = [p \in Procs |-> <<>>]
    /\ calls = [p \in Procs |-> <<>>]
    /\ edits = [p \in Procs |-> <<>>]
    /\ runs = 0
    /\ engineFailures = FALSE
    /\ failuresBefore = [p \in Procs |-> FALSE]

\* ---------------------------------------------------------------- actions

\* The invocation in slot p returns (or its promise is rejected).
Return(p, how) ==
    /\ pc' = [pc EXCEPT ![p] = "done"]
    /\ outcome' = [outcome EXCEPT ![p] = how]

\* A registered command is run: pasteAsTypes(editor, kind, justTypes) up to
\* its first suspension, inside getTargetLanguage (the picker) or at paste().
\* The invocation takes the lowest free slot, whose record of the invocation
\* before it starts anew; MaxRuns and MaxDoc bound the behaviour.
Invoke(p) ==
    /\ pc[p] \in {"idle", "done"}
    /\ \A q \in Procs : q < p => pc[q] \notin {"idle", "done"}
    /\ runs < MaxRuns
    /\ Len(document) <= MaxDoc
    /\ \E registered \in Command :
        /\ command' = [command EXCEPT ![p] = registered.id]
        /\ kind' = [kind EXCEPT ![p] = registered.kind]
        /\ justTypes' = [justTypes EXCEPT ![p] = registered.justTypes]
    /\ runs' = runs + 1
    /\ failuresBefore' = [failuresBefore EXCEPT ![p] = engineFailures]
    /\ indentation' = [indentation EXCEPT ![p] = Indentation(options)]
    /\ documentLanguage' = [documentLanguage EXCEPT ![p] = languageId]
    /\ outcome' = [outcome EXCEPT ![p] = "none"]
    /\ content' = [content EXCEPT ![p] = <<>>]
    /\ rendererOptions' = [rendererOptions EXCEPT ![p] = {}]
    /\ chosenName' = [chosenName EXCEPT ![p] = Undefined]
    /\ promptedName' = [promptedName EXCEPT ![p] = Undefined]
    /\ topLevelName' = [topLevelName EXCEPT ![p] = NoResult]
    /\ result' = [result EXCEPT ![p] = <<>>]
    /\ pasted' = [pasted EXCEPT ![p] = <<>>]
    /\ promptShown' = [promptShown EXCEPT ![p] = 0]
    /\ errors' = [errors EXCEPT ![p] = <<>>]
    /\ events' = [events EXCEPT ![p] = <<>>]
    /\ calls' = [calls EXCEPT ![p] = <<>>]
    /\ edits' = [edits EXCEPT ![p] = <<>>]
    /\ IF NeedsPicker(languageId)
       THEN /\ pickerShown' = [pickerShown EXCEPT ![p] = 1]
            /\ pasteCalls' = [pasteCalls EXCEPT ![p] = 0]
            /\ language' = [language EXCEPT ![p] = NoResult]
            /\ pc' = [pc EXCEPT ![p] = "pick"]
       ELSE /\ pickerShown' = [pickerShown EXCEPT ![p] = 0]
            /\ pasteCalls' = [pasteCalls EXCEPT ![p] = 1]
            /\ language' = [language EXCEPT ![p] = CurrentLanguage(languageId)]
            /\ pc' = [pc EXCEPT ![p] = "paste"]
    /\ UNCHANGED <<editorVars, clipboard, engineFailures>>

\* showQuickPick resolves: getTargetLanguage returns, and pasteAsTypes
\* returns or calls paste().
PickLanguage(p) ==
    /\ pc[p] = "pick"
    /\ \E picked \in languageChoices \cup {Undefined} :
        LET chosen == ChosenLanguage(picked)
        IN  /\ chosenName' = [chosenName EXCEPT ![p] = picked]
            /\ language' = [language EXCEPT ![p] = chosen]
            /\ IF chosen.cancelled
               THEN /\ Return(p, "language cancelled")
                    /\ UNCHANGED pasteCalls
               ELSE /\ pc' = [pc EXCEPT ![p] = "paste"]
                    /\ pasteCalls' = [pasteCalls EXCEPT ![p] = @ + 1]
                    /\ UNCHANGED outcome
    /\ UNCHANGED <<editorVars, clipboard, command, kind, justTypes, indentation,
                   documentLanguage, content, rendererOptions, promptedName,
                   topLevelName, result, pickerShown, pasted, promptShown,
                   errors, events, calls, edits, runs, engineFailures,
                   failuresBefore>>

\* The callback of copy-paste reports an error: paste() rejects, and so does
\* pasteAsTypes.
PasteFails(p) ==
    /\ pc[p] = "paste"
    /\ Return(p, "paste failed")
    /\ UNCHANGED <<editorVars, clipboard, localVars, logVars, runs,
                   engineFailures, failuresBefore>>

\* PasteCallback with content a variable of the module, which all invocations
\* share, and no local of pasteAsTypes.
PasteCallbackShared(p) ==
    /\ pc[p] = "paste"
    /\ content' = [q \in Procs |-> clipboard]
    /\ pasted' = [pasted EXCEPT ![p] = Append(@, clipboard)]
    /\ IF kind[p] # "typescript" /\ ~jsonIsValid(clipboard)
       THEN /\ errors' = [errors EXCEPT ![p] =
                    Append(@, <<"Clipboard does not contain valid JSON.">>)]
            /\ Return(p, "invalid JSON")
            /\ UNCHANGED <<rendererOptions, promptShown>>
       ELSE /\ rendererOptions' = [rendererOptions EXCEPT ![p] =
                    RendererOptions(justTypes[p])]
            /\ promptShown' = [promptShown EXCEPT ![p] = @ + 1]
            /\ pc' = [pc EXCEPT ![p] = "name"]
            /\ UNCHANGED <<errors, outcome>>
    /\ UNCHANGED <<editorVars, clipboard, command, kind, justTypes, indentation,
                   documentLanguage, chosenName, language, promptedName,
                   topLevelName, result, pickerShown, pasteCalls, events,
                   calls, edits, runs, engineFailures, failuresBefore>>

\* The callback of copy-paste passes the clipboard: pasteAsTypes checks the
\* content and returns, or asks for the top-level name.
PasteCallback(p) ==
    /\ pc[p] = "paste"
    /\ content' = [content EXCEPT ![p] = clipboard]
    /\ pasted' = [pasted EXCEPT ![p] = Append(@, clipboard)]
    /\ IF kind[p] # "typescript" /\ ~jsonIsValid(clipboard)
       THEN /\ errors' = [errors EXCEPT ![p] =
                    Append(@, <<"Clipboard does not contain valid JSON.">>)]
            /\ Return(p, "invalid JSON")
            /\ UNCHANGED <<rendererOptions, promptShown>>
       ELSE /\ rendererOptions' = [rendererOptions EXCEPT ![p] =
                    RendererOptions(justTypes[p])]
            /\ promptShown' = [promptShown EXCEPT ![p] = @ + 1]
            /\ pc' = [pc EXCEPT ![p] = "name"]
            /\ UNCHANGED <<errors, outcome>>
    /\ UNCHANGED <<editorVars, clipboard, command, kind, justTypes, indentation,
                   documentLanguage, chosenName, language, promptedName,
                   topLevelName, result, pickerShown, pasteCalls, events,
                   calls, edits, runs, engineFailures, failuresBefore>>

\* pasteAsTypes from the result of promptTopLevelName to the call of
\* quicktype, for the name the input box resolved to and the text to submit.
Submit(p, input, text) ==
    LET name == TopLevelName(input)
        table == Sources(name.name, text)
    IN  /\ promptedName' = [promptedName EXCEPT ![p] = input]
        /\ topLevelName' = [topLevelName EXCEPT ![p] = name]
        /\ IF name.cancelled
           THEN /\ Return(p, "name cancelled")
                /\ UNCHANGED <<errors, events, calls>>
           ELSE IF kind[p] \notin DOMAIN table
           THEN /\ errors' = [errors EXCEPT ![p] =
                        Append(@, <<"Unrecognized input format: ", kind[p]>>)]
                /\ Return(p, "unrecognized")
                /\ UNCHANGED <<events, calls>>
           ELSE /\ events' = [events EXCEPT ![p] =
                        Append(@, <<"paste", kind[p], language[p].name>>)]
                /\ calls' = [calls EXCEPT ![p] =
                        Append(@, Request(language[p].name, table[kind[p]],
                                          rendererOptions[p], indentation[p]))]
                /\ pc' = [pc EXCEPT ![p] = "engine"]
                /\ UNCHANGED <<errors, outcome>>
        /\ UNCHANGED <<editorVars, clipboard, command, kind, justTypes,
                       indentation, documentLanguage, chosenName, language,
                       content, rendererOptions, result, pickerShown,
                       pasteCalls, pasted, promptShown, edits, runs,
                       engineFailures, failuresBefore>>

\* NamePrompt with the clipboard read again for the source.
NamePromptRereads(p) ==
    /\ pc[p] = "name"
    /\ \E input \in NameInputs : Submit(p, input, clipboard)

\* showInputBox resolves: pasteAsTypes returns or calls quicktype with the
\* content it read.
NamePrompt(p) ==
    /\ pc[p] = "name"
    /\ \E input \in NameInputs : Submit(p, input, content[p])

\* quicktype resolves: the lines are joined and put at the selection, as it
\* is then.  The editor applies the edit and leaves the cursor after the text.
EngineResolves(p) ==
    /\ pc[p] = "engine"
    /\ ~Uncatchable(calls[p][1])
    /\ LET lines == Render(calls[p][1])
           text == Join(lines, "\n")
       IN  /\ result' = [result EXCEPT ![p] = lines]
           /\ document' = Edit(document, selection, text)
           /\ edits' = [edits EXCEPT ![p] =
                   Append(@, [start |-> selection.start,
                              end |-> selection.end, text |-> text])]
           /\ selection' = [start |-> selection.start + Len(text),
                            end |-> selection.start + Len(text)]
    /\ Return(p, "inserted")
    /\ UNCHANGED <<languageId, options, clipboard, command, kind, justTypes,
                   indentation, documentLanguage, chosenName, language,
                   content, rendererOptions, promptedName, topLevelName,
                   pickerShown, pasteCalls, pasted, promptShown, errors,
                   events, calls, runs, engineFailures, failuresBefore>>

\* EngineRejects with the lines rendered before the failure written to the
\* document.
EngineRejectsPartial(p) ==
    /\ pc[p] = "engine"
    /\ ~Uncatchable(calls[p][1])
    /\ errors' = [errors EXCEPT ![p] = Append(@, EngineError(calls[p][1]))]
    /\ document' = Edit(document, selection, Render(calls[p][1])[1])
    /\ Return(p, "engine error")
    /\ engineFailures' = TRUE
    /\ UNCHANGED <<languageId, options, selection, clipboard, localVars,
                   pickerShown, pasteCalls, pasted, promptShown, events, calls,
                   edits, runs, failuresBefore>>

\* EngineRejects with a catch clause that shows nothing.
EngineRejectsSilently(p) ==
    /\ pc[p] = "engine"
    /\ ~Uncatchable(calls[p][1])
    /\ Return(p, "engine error")
    /\ engineFailures' = TRUE
    /\ UNCHANGED <<editorVars, clipboard, localVars, logVars, runs,
                   failuresBefore>>

\* quicktype throws: the catch clause shows the error, unless the exception
\* is one the caller cannot catch.
EngineRejects(p) ==
    /\ pc[p] = "engine"
    /\ IF Uncatchable(calls[p][1])
       THEN /\ pc' = [pc EXCEPT ![p] = "fault"]
            /\ UNCHANGED <<outcome, errors>>
       ELSE /\ errors' = [errors EXCEPT ![p] =
                    Append(@, EngineError(calls[p][1]))]
            /\ Return(p, "engine error")
    /\ engineFailures' = TRUE
    /\ UNCHANGED <<editorVars, clipboard, localVars, pickerShown, pasteCalls,
                   pasted, promptShown, events, calls, edits, runs,
                   failuresBefore>>

\* The user copies something else.
Copy ==
    /\ \E c \in Contents \ {clipboard} : clipboard' = c
    /\ UNCHANGED <<editorVars, pc, outcome, localVars, logVars, runs,
                   engineFailures, failuresBefore>>

Min(a, b) == IF a < b THEN a ELSE b

\* The user moves the selection.  The selection is read only after an engine
\* call has returned, so the moves made while one is pending are all that an
\* invocation can observe.
Select ==
    /\ \E p \in Procs : pc[p] = "engine"
    /\ \E s \in 0..Min(MaxPos, Len(document)) :
       \E e \in s..Min(MaxPos, Len(document)) :
        /\ selection # [start |-> s, end |-> e]
        /\ selection' = [start |-> s, end |-> e]
    /\ UNCHANGED <<languageId, options, document, clipboard, pc, outcome,
                   localVars, logVars, runs, engineFailures, failuresBefore>>

\* A step of the invocation in slot p.
Step(p) ==
    \/ Invoke(p)
    \/ PickLanguage(p)
    \/ PasteFails(p)
    \/ PasteCallback(p)
    \/ NamePrompt(p)
    \/ EngineResolves(p)
    \/ EngineRejects(p)

\* Overlapping invocations and a changing clipboard; the selection stays
\* where the edits leave it.
Next ==
    \/ \E p \in Procs : Step(p)
    \/ Copy

Spec == Init /\ [][Next]_vars

\* One invocation at a time, with the user moving the selection and
\* changing the clipboard at any moment.
NextEditor ==
    \/ Step(1)
    \/ Copy
    \/ Select

SpecEditor == Init /\ [][NextEditor]_vars

\* ----------------------------------------------------------------- claims

\* A text is JSON: the parser consumes all of it.
ParsesAsJSON(text) == ParseValue(text, 1) = Len(text) + 1

\* The invocation in slot p has resolved a language and gone on with it.
LanguageResolved(p) ==
    /\ pc[p] \notin {"idle", "pick"}
    /\ pickerShown[p] = 1 => chosenName[p] # Undefined

\* The display name of the language an invocation is to generate: that of
\* the document's language, or else the one picked.
OwnLanguage(p) ==
    IF languageNamed(documentLanguage[p]) # {}
    THEN (CHOOSE l \in languages : documentLanguage[p] \in l.names).displayName
    ELSE chosenName[p]

\* C1: the document changes only in the step in which an engine call returns
\* its result, and then by the one edit that puts all of the rendered lines
\* at the selection; every step that ends an invocation in another way (the
\* picker or the prompt dismissed, invalid JSON, the engine throwing) leaves
\* the document as it was.
C1_DocumentChangesOnlyOnSuccess ==
    [][ /\ document' # document =>
            \E p \in Procs :
                /\ pc[p] = "engine" /\ pc'[p] = "done"
                /\ result'[p] = Render(calls[p][1])
                /\ errors'[p] = <<>>
                /\ Len(edits[p]) = 0 /\ Len(edits'[p]) = 1
                /\ document' =
                     Edit(document, selection, Join(result'[p], "\n"))
        /\ \A p \in Procs :
            (pc[p] # "done" /\ pc'[p] = "done" /\ result'[p] = <<>>)
                => document' = document /\ edits'[p] = <<>>
      ]_vars

\* C1 witness: an invocation whose engine call threw has ended, and it made
\* no edit.
C1_Witness ==
    \E p \in Procs :
        /\ pc[p] = "done" /\ outcome[p] = "engine error"
        /\ calls[p] # <<>> /\ edits[p] = <<>>
        /\ document = <<"a", "b">>

\* C2: for kind json or schema, a clipboard content that is no JSON ends the
\* invocation with the error message shown and without a call of the engine;
\* the content of every json or schema source the engine is called with is
\* JSON, and the engine never raises its uncatchable exception.
C2_InvalidJSONReported ==
    \A p \in Procs :
        /\ pc[p] # "fault"
        /\ (/\ pasted[p] # <<>>
            /\ kind[p] \in {"json", "schema"}
            /\ ~ParsesAsJSON(pasted[p][1]))
           => /\ pc[p] = "done"
              /\ errors[p] = << <<"Clipboard does not contain valid JSON.">> >>
              /\ calls[p] = <<>>
              /\ promptShown[p] = 0
        /\ \A i \in 1..Len(calls[p]) :
            LET source == calls[p][i].sources[1]
            IN  source.kind \in {"json", "schema"}
                    => ParsesAsJSON(SourceText(source))

\* C2 witness: a JSON command has rejected a clipboard that holds no JSON.
C2_Witness ==
    \E p \in Procs :
        /\ kind[p] = "json" /\ pc[p] = "done"
        /\ pasted[p] = << <<"[", "1">> >>
        /\ Len(errors[p]) = 1 /\ calls[p] = <<>>

\* C3: the lang of every engine call is the display name of a language of
\* the engine: that of the document's language, or the one the user picked;
\* the default "types" is the name only of a cancelled result, with which
\* the engine is not called.
C3_LanguageSupported ==
    \A p \in Procs :
        /\ \A i \in 1..Len(calls[p]) :
            /\ calls[p][i].lang \in DisplayNames
            /\ calls[p][i].lang = OwnLanguage(p)
        /\ language[p].name = "types"
            => language[p].cancelled /\ calls[p] = <<>> /\ pc[p] = "done"

\* C3 witness: the engine is called with a language picked from the list.
C3_Witness ==
    \E p \in Procs :
        /\ pickerShown[p] = 1 /\ chosenName[p] = "Swift"
        /\ calls[p] # <<>> /\ calls[p][1].lang = "Swift"

\* C4: after the picker or the name prompt is dismissed, the invocation has
\* ended without an engine call, an analytics event, an error message or an
\* edit, and after a dismissed picker without a clipboard read; an empty name
\* goes on to the engine as "TopLevel".
C4_CancelledNeverCalls ==
    \A p \in Procs :
        /\ (pickerShown[p] = 1 /\ pc[p] # "pick" /\ chosenName[p] = Undefined)
            => /\ pc[p] = "done"
               /\ calls[p] = <<>> /\ events[p] = <<>>
               /\ errors[p] = <<>> /\ edits[p] = <<>>
               /\ pasteCalls[p] = 0 /\ pasted[p] = <<>>
               /\ promptShown[p] = 0
        /\ (promptShown[p] = 1 /\ pc[p] # "name"
                /\ promptedName[p] = Undefined)
            => /\ pc[p] = "done"
               /\ calls[p] = <<>> /\ events[p] = <<>>
               /\ errors[p] = <<>> /\ edits[p] = <<>>
        /\ (promptShown[p] = 1 /\ pc[p] # "name" /\ promptedName[p] = "")
            => /\ Len(calls[p]) = 1 /\ Len(events[p]) = 1
               /\ SourceName(calls[p][1].sources[1]) = "TopLevel"

\* C4 witness: the name prompt was dismissed after the clipboard was read.
C4_Witness ==
    \E p \in Procs :
        /\ promptShown[p] = 1 /\ pc[p] = "done"
        /\ promptedName[p] = Undefined /\ pasted[p] # <<>>

\* C5: a step in which the engine call of an invocation fails ends the
\* invocation with exactly one error message, the engine's error, shown, and
\* with no edit and the document unchanged.
C5_EngineFailureSurfaced ==
    [][ \A p \in Procs :
            (pc[p] = "engine" /\ pc'[p] # "engine" /\ result'[p] = <<>>)
            => /\ pc'[p] = "done"
               /\ errors'[p] = <<EngineError(calls[p][1])>>
               /\ edits'[p] = <<>>
               /\ document' = document
      ]_vars

\* C5 witness: an invocation that started after an engine call had failed
\* has put its text into the document.
C5_Witness ==
    \E p \in Procs :
        /\ failuresBefore[p]
        /\ pc[p] = "done" /\ Len(edits[p]) = 1 /\ errors[p] = <<>>

\* The request an invocation builds from its own command, language, clipboard
\* read and name.
OwnRequest(p) ==
    Request(OwnLanguage(p),
            Sources(OrElse(promptedName[p], "TopLevel"), pasted[p][1])[kind[p]],
            RendererOptions(justTypes[p]),
            indentation[p])

\* C6: whatever the interleaving of two invocations, the request of each is
\* the one built from its own language, kind, flag, name and clipboard read,
\* and the text it puts into the document is the rendering of that request.
C6_Isolation ==
    \A p \in Procs :
        /\ Len(calls[p]) <= 1
        /\ calls[p] # <<>> =>
            /\ Len(pasted[p]) = 1
            /\ calls[p][1] = OwnRequest(p)
        /\ \A i \in 1..Len(edits[p]) :
            edits[p][i].text = Join(Render(OwnRequest(p)), "\n")

\* C6 witness: two invocations wait for the engine at the same time, with
\* different clipboard reads, names and languages.
C6_Witness ==
    /\ pc[1] = "engine" /\ pc[2] = "engine"
    /\ pasted[1] # pasted[2]
    /\ promptedName[1] # promptedName[2]
    /\ chosenName[1] # chosenName[2]

\* The offset in Join(lines, sep) before line i.
RECURSIVE Offset(_, _)
Offset(lines, i) ==
    IF i = 1 THEN 0 ELSE Offset(lines, i - 1) + Len(lines[i - 1]) + 1

\* text is the lines in their order with one "\n" between consecutive lines.
IsJoined(text, lines) ==
    /\ Len(lines) > 0
    /\ Len(text) = Offset(lines, Len(lines)) + Len(lines[Len(lines)])
    /\ \A i \in 1..Len(lines) :
        /\ \A k \in 1..Len(lines[i]) : text[Offset(lines, i) + k] = lines[i][k]
        /\ i < Len(lines) => text[Offset(lines, i) + Len(lines[i]) + 1] = "\n"

\* C7: in the step in which an engine call returns, the text is the result's
\* lines joined in order by newlines; it stands in the document at the start
\* of the selection read in that step, in place of the selected range (of
\* nothing, when the selection is empty), and the document before the start
\* and after the end of the selection is unchanged.
C7_EditPlacesLines ==
    [][ \A p \in Procs :
            (pc[p] = "engine" /\ result'[p] # <<>>) =>
            LET text == edits'[p][1].text
                start == selection.start
                end == selection.end
            IN  /\ IsJoined(text, result'[p])
                /\ edits'[p] =
                     <<[start |-> start, end |-> end, text |-> text]>>
                /\ Len(document') = Len(document) - (end - start) + Len(text)
                /\ SubSeq(document', 1, start) = SubSeq(document, 1, start)
                /\ SubSeq(document', start + 1, start + Len(text)) = text
                /\ SubSeq(document', start + Len(text) + 1, Len(document'))
                     = SubSeq(document, end + 1, Len(document))
      ]_vars

\* C7 witness: a text has replaced a selection that was not empty.
C7_Witness ==
    \E p \in Procs :
        /\ Len(edits[p]) = 1
        /\ edits[p][1].start < edits[p][1].end
        /\ Len(result[p]) > 1

\* The kind each registered command is for.
KindOfCommand ==
    [c \in {r.id : r \in Command} |->
        IF c \in {"quicktype.pasteJSONAsTypes",
                  "quicktype.pasteJSONAsTypesAndSerialization"} THEN "json"
        ELSE IF c \in {"quicktype.pasteJSONSchemaAsTypes",
                       "quicktype.pasteJSONSchemaAsTypesAndSerialization"}
             THEN "schema"
        ELSE "typescript"]

\* C8: the engine gets one source, of the kind of the command that was run,
\* with the name promptTopLevelName returned (the name of a json or schema
\* source, the stem of the file name of a typescript source) and the content
\* read from the clipboard; the renderer options hold just-types exactly for
\* the two "as types" commands and are empty for the others; no command
\* ends in the "Unrecognized input format" error.
C8_CommandDeterminesRequest ==
    \A p \in Procs :
        /\ \A i \in 1..Len(errors[p]) :
            errors[p][i][1] # "Unrecognized input format: "
        /\ \A i \in 1..Len(calls[p]) :
            LET request == calls[p][i]
                source == request.sources[1]
            IN  /\ Len(request.sources) = 1
                /\ <<"just-types", "true">> \in request.rendererOptions
                    <=> command[p] \in {"quicktype.pasteJSONAsTypes",
                                        "quicktype.pasteJSONSchemaAsTypes"}
                /\ request.rendererOptions # {}
                    => request.rendererOptions =
                        {<<"just-types", "true">>, <<"features", "just-types">>}
                /\ source.kind = KindOfCommand[command[p]]
                /\ source.kind \in {"json", "schema"}
                    => source.name = topLevelName[p].name
                /\ source.kind = "typescript"
                    => \E f \in source.sources :
                        f[1] = <<topLevelName[p].name, ".ts">>
                /\ topLevelName[p].name = OrElse(promptedName[p], "TopLevel")
                /\ SourceText(source) = content[p]

\* C8 witness: the engine is called by a "types and serialization" command
\* with no renderer options, while another invocation's call has just-types.
C8_Witness ==
    \E p, q \in Procs :
        /\ command[p] = "quicktype.pasteTypeScriptAsTypesAndSerialization"
        /\ calls[p] # <<>> /\ calls[p][1].rendererOptions = {}
        /\ command[q] = "quicktype.pasteJSONSchemaAsTypes"
        /\ calls[q] # <<>> /\ calls[q][1].rendererOptions # {}

\* C9: the picker is shown in an invocation exactly when the document's
\* language id names no language of the engine; when it names one the result
\* is not cancelled and is that language's display name.  The name prompt is
\* shown exactly in the invocations that have resolved a language and read a
\* clipboard content that passed the validation, and once.
C9_PromptsWhenUnknown ==
    \A p \in Procs :
        pc[p] # "idle" =>
            /\ pickerShown[p] = 1 <=> languageNamed(documentLanguage[p]) = {}
            /\ pickerShown[p] \in {0, 1}
            /\ languageNamed(documentLanguage[p]) # {}
                => /\ ~language[p].cancelled
                   /\ \E l \in languageNamed(documentLanguage[p]) :
                        language[p].name = l.displayName
            /\ promptShown[p] \in {0, 1}
            /\ promptShown[p] = 1
                <=> /\ LanguageResolved(p)
                    /\ pasted[p] # <<>>
                    /\ kind[p] = "typescript" \/ ParsesAsJSON(pasted[p][1])

\* C9 witness: in a document whose language the engine knows, the name was
\* asked for and no language.
C9_Witness ==
    \E p \in Procs :
        /\ documentLanguage[p] = "typescript"
        /\ language[p].name = "TypeScript"
        /\ pickerShown[p] = 0 /\ promptShown[p] = 1

\* C10: an invocation calls paste() at most once, and once whenever it has
\* resolved a language; the read comes before the name prompt, and the text
\* of the source of an engine call is the content that read returned, which
\* for kinds json and schema is JSON, whatever the clipboard holds by then.
C10_ValidatedContentSubmitted ==
    \A p \in Procs :
        /\ pasteCalls[p] = (IF LanguageResolved(p) THEN 1 ELSE 0)
        /\ Len(pasted[p]) <= pasteCalls[p]
        /\ pc[p] = "paste" <=> (pasteCalls[p] = 1 /\ pasted[p] = <<>>
                                    /\ outcome[p] # "paste failed")
        /\ promptShown[p] = 1 => Len(pasted[p]) = 1
        /\ \A i \in 1..Len(calls[p]) :
            LET source == calls[p][i].sources[1]
            IN  /\ Len(pasted[p]) = 1
                /\ SourceText(source) = pasted[p][1]
                /\ kind[p] # "typescript" => ParsesAsJSON(SourceText(source))

\* C10 witness: the engine was called with the content read, and the
\* clipboard has changed since to a text that is no JSON.
C10_Witness ==
    \E p \in Procs :
        /\ kind[p] = "json" /\ pc[p] = "engine"
        /\ SourceText(calls[p][1].sources[1]) = pasted[p][1]
        /\ clipboard # pasted[p][1] /\ ~ParsesAsJSON(clipboard)

====
